---- MODULE Spec2Model ----
(***************************************************************************)
(* DronePhotogrammetry: the job watcher of the viewer (ModelViewer's poll  *)
(* effect), the backend's model endpoints (WebodmController.getModel,      *)
(* AppController.convertZipToGlbFromWebodm) and the GLB cache file they    *)
(* share, over a remote photogrammetry job.                                *)
(***************************************************************************)
EXTENDS Integers, Sequences, FiniteSets, TLC

(***************************************************************************)
(* Bounds of the model.                                                    *)
(***************************************************************************)
MaxJobs == 2
MaxPolls == 2
MaxDrops == 1
MaxReqs == 3
GlbChunks == 2

Jobs == 1..MaxJobs
PollIds == 1..MaxPolls
ReqIds == 1..MaxReqs

(***************************************************************************)
(* The remote job's status vocabulary.                                     *)
(***************************************************************************)
Queued == 10
Running == 20
Failed == 30
Completed == 40
Canceled == 50
UnknownCode == 60

Codes == {Queued, Running, Failed, Completed, Canceled, UnknownCode}
Terminal == {Failed, Completed, Canceled}

\* null of the viewer's state: no job (currentProject, modelUrl), no message (error)
NoJob == 0
Null == "null"
ErrFailed == "model generation failed"
ErrCheck == "progress check failed"
ErrList == "project list failed"
ErrDrop == "generation error"

VARIABLES
  jobStatus,       \* remote: job -> numeric status code
  archive,         \* remote: job -> kind of its textured_model.zip
  taskId,          \* remote: job (a task of a project) -> its task id
  \* ---- viewer (ModelViewer) ----
  mounted,         \* the component is mounted
  loading,         \* useState loading
  currentProject,  \* useState currentProject: a job or Null
  modelUrl,        \* useState modelUrl: Null or the job whose model it shows
  error,           \* useState error
  intervalOn,      \* the current effect's setInterval timer is armed
  polls,           \* checkProgress invocations in flight
  listed,          \* fetchProjects has answered
  dropPhase,       \* onDrop's position: "none", "creating", "refreshing"
  drops,           \* number of onDrop calls so far
  assigned,        \* jobs that were made currentProject
  fetchCount,      \* job -> number of webodmApi.getModel calls by the watcher
  firstObs,        \* job -> first status the watcher saw for it (0: none yet)
  progress,        \* useState progress
  \* ---- backend ----
  reqs,            \* HTTP requests of the two model endpoints
  fileExists,      \* cache: job -> the file uploads/.../glb/<taskId>.glb exists
  fileData,        \* cache: job -> the chunks the file holds
  jsBusy,          \* request whose synchronous code occupies the JS thread (0: none)
  firstWrite,      \* job -> bytes of the first completed cache write (<<>>: none)
  \* ---- convertZipToGlb ----
  now,             \* Date.now(), in milliseconds
  zips,            \* invocation -> the archive it is given
  conv,            \* invocation -> its position and its locals
  tmp,             \* tmp directory -> file name -> what the file holds
  \* ---- backend: the handlers that keep no state of their own ----
  calls,           \* invocations of the admin, createTask, upload and signup handlers
  remoteUsers,     \* usernames the remote service holds
  localUsers,      \* usernames the application's own store holds
  \* ---- frontend session (AuthContext, the axios interceptor) ----
  authState,       \* useState authState
  storage,         \* localStorage: the entries token and user
  pathname,        \* window.location.pathname
  inFlight         \* the kinds of request the page awaits an answer to

remoteVars == <<jobStatus, archive, taskId>>
viewVars == <<mounted, loading, currentProject, modelUrl, error, intervalOn,
              polls, listed, dropPhase, drops, assigned, fetchCount, firstObs,
              progress>>
backVars == <<reqs, fileExists, fileData, jsBusy, firstWrite>>
convVars == <<now, zips, conv, tmp>>
apiVars == <<calls, remoteUsers, localUsers>>
authVars == <<authState, storage, pathname, inFlight>>
siteVars == <<apiVars, authVars>>
vars == <<remoteVars, viewVars, backVars, convVars, siteVars>>

(***************************************************************************)
(* The remote system.  A job leaves a terminal status never again; before  *)
(* that it may move to any other code (never back to Queued).              *)
(***************************************************************************)
RemoteNext(s) == IF s \in Terminal THEN {} ELSE Codes \ {s, Queued}

RemoteAdvance(j, s) ==
  /\ s \in RemoteNext(jobStatus[j])
  /\ jobStatus' = [jobStatus EXCEPT ![j] = s]
  /\ UNCHANGED <<archive, taskId, viewVars, backVars, convVars, siteVars>>

(***************************************************************************)
(* The viewer: ModelViewer's state, its poll effect and checkProgress.     *)
(***************************************************************************)
IdlePoll ==
  [pc |-> "idle", job |-> NoJob, live |-> FALSE, ok |-> TRUE, status |-> 0, label |-> "",
   progress |-> 0]

\* running_progress as the remote service reports it: absent, or a number,
\* held in tenths (15 is 1.5)
NoProgress == [defined |-> FALSE, tenths |-> 0]
Reported(t) == [defined |-> TRUE, tenths |-> t]

\* Math.round of a number held in tenths: the nearest integer, halves upwards
MathRound(t) == (t + 5) \div 10

Min(a, b) == IF a < b THEN a ELSE b
Max(a, b) == IF a > b THEN a ELSE b

\* webodmApi.getTaskStatus: running_progress of the object it returns
NormalizedProgress(rp) ==
  IF rp.defined THEN Min(Max(MathRound(rp.tenths), 0), 100) ELSE 0

\* the percentage the viewer's progress bar shows for its state progress
ShownPercent(pr) == MathRound(pr * 100 * 10)

\* checkProgress called by the effect that is current: it awaits getTaskStatus
NewPoll(j) ==
  [pc |-> "sent", job |-> j, live |-> TRUE, ok |-> TRUE, status |-> 0, label |-> "",
   progress |-> 0]

HasFree(ps) == \E p \in PollIds : ps[p].pc = "idle"

FreeSlot(ps) ==
  CHOOSE p \in PollIds :
    /\ ps[p].pc = "idle"
    /\ \A q \in PollIds : ps[q].pc = "idle" => p <= q

\* the effect's cleanup: its closures stay in flight but belong to no effect
Stale(ps) ==
  [p \in PollIds |-> IF ps[p].pc = "idle" THEN ps[p] ELSE [ps[p] EXCEPT !.live = FALSE]]

\* clearInterval(intervalId) inside the closure of poll q: its own effect's timer
ClearedBy(q) == IF q.live THEN FALSE ELSE intervalOn

\* setLoading(l) and setCurrentProject(cp) (cpSet: a value that differs from
\* the current one), then React's re-render: when a dependency of the poll
\* effect changed, its cleanup runs and the effect runs again.  ps and iv are
\* the polls and the timer as the calling handler left them.
Render(l, cp, cpSet, ps, iv) ==
  IF ~mounted
  THEN /\ loading' = loading
       /\ currentProject' = currentProject
       /\ intervalOn' = iv
       /\ polls' = ps
  ELSE /\ loading' = l
       /\ currentProject' = cp
       /\ IF l = loading /\ ~cpSet
          THEN /\ intervalOn' = iv
               /\ polls' = ps
          ELSE IF l /\ cp # NoJob
          THEN /\ HasFree(ps)
               /\ polls' = [Stale(ps) EXCEPT ![FreeSlot(ps)] = NewPoll(cp)]
               /\ intervalOn' = TRUE
          ELSE /\ polls' = Stale(ps)
               /\ intervalOn' = FALSE

SetError(e) == error' = IF mounted THEN e ELSE error

\* the mount effect: fetchProjects answers
FetchProjectsFound(j) ==
  /\ mounted /\ ~listed
  /\ jobStatus[j] = Running
  /\ listed' = TRUE
  /\ Render(TRUE, j, TRUE, polls, intervalOn)
  /\ assigned' = assigned \cup {j}
  /\ UNCHANGED <<siteVars, progress, convVars, remoteVars, backVars, mounted, modelUrl, error, dropPhase, drops,
                 fetchCount, firstObs>>

FetchProjectsNone(ok) ==
  /\ mounted /\ ~listed
  /\ ok => \A j \in Jobs : jobStatus[j] # Running
  /\ listed' = TRUE
  /\ error' = IF ok THEN error ELSE ErrList
  /\ UNCHANGED <<siteVars, progress, convVars, remoteVars, backVars, mounted, loading, currentProject, modelUrl,
                 intervalOn, polls, dropPhase, drops, assigned, fetchCount, firstObs>>

\* onDrop up to its first await
OnDropStart ==
  /\ mounted /\ dropPhase = "none" /\ drops < MaxDrops
  /\ dropPhase' = "creating"
  /\ drops' = drops + 1
  /\ error' = Null
  /\ progress' = 0
  /\ Render(TRUE, currentProject, FALSE, polls, intervalOn)
  /\ UNCHANGED <<siteVars, convVars, remoteVars, backVars, mounted, modelUrl, listed, assigned,
                 fetchCount, firstObs>>

\* createTask answered with the new task j
OnDropCreated(j) ==
  /\ dropPhase = "creating"
  /\ j \notin assigned
  /\ dropPhase' = "refreshing"
  /\ assigned' = assigned \cup {j}
  /\ Render(loading, j, TRUE, polls, intervalOn)
  /\ UNCHANGED <<siteVars, progress, convVars, remoteVars, backVars, mounted, modelUrl, error, listed, drops,
                 fetchCount, firstObs>>

\* any await of onDrop threw
OnDropFail ==
  /\ dropPhase \in {"creating", "refreshing"}
  /\ dropPhase' = "none"
  /\ SetError(ErrDrop)
  /\ Render(FALSE, currentProject, FALSE, polls, intervalOn)
  /\ UNCHANGED <<siteVars, progress, convVars, remoteVars, backVars, mounted, modelUrl, listed, drops, assigned,
                 fetchCount, firstObs>>

OnDropDone ==
  /\ dropPhase = "refreshing"
  /\ dropPhase' = "none"
  /\ UNCHANGED <<siteVars, progress, convVars, remoteVars, backVars, mounted, loading, currentProject, modelUrl,
                 error, intervalOn, polls, listed, drops, assigned, fetchCount, firstObs>>

Unmount ==
  /\ mounted
  /\ mounted' = FALSE
  /\ intervalOn' = FALSE
  /\ polls' = Stale(polls)
  /\ UNCHANGED <<siteVars, progress, convVars, remoteVars, backVars, loading, currentProject, modelUrl, error,
                 listed, dropPhase, drops, assigned, fetchCount, firstObs>>

\* the 5 s timer fires: checkProgress with the effect's currentProject
Tick ==
  /\ intervalOn
  /\ HasFree(polls)
  /\ polls' = [polls EXCEPT ![FreeSlot(polls)] = NewPoll(currentProject)]
  /\ UNCHANGED <<siteVars, progress, convVars, remoteVars, backVars, mounted, loading, currentProject, modelUrl,
                 error, intervalOn, listed, dropPhase, drops, assigned, fetchCount,
                 firstObs>>

\* getTaskStatusLabel with code 50 left out of the switch
getTaskStatusLabelNoCanceled(status) ==
  CASE status = 10 -> "QUEUED"
    [] status = 20 -> "RUNNING"
    [] status = 30 -> "FAILED"
    [] status = 40 -> "COMPLETED"
    [] OTHER -> "UNKNOWN"

\* the backend's label of a status code, attached to every task it returns
getTaskStatusLabel(status) ==
  CASE status = 10 -> "QUEUED"
    [] status = 20 -> "RUNNING"
    [] status = 30 -> "FAILED"
    [] status = 40 -> "COMPLETED"
    [] status = 50 -> "CANCELED"
    [] OTHER -> "UNKNOWN"

\* the status call is answered (ok) or fails (network, HTTP error)
ServePoll(p, ok, rp) ==
  /\ polls[p].pc = "sent"
  /\ polls' = [polls EXCEPT ![p] = [polls[p] EXCEPT
                   !.pc = "served", !.ok = ok,
                   !.progress = IF ok THEN NormalizedProgress(rp) ELSE 0,
                   !.status = IF ok THEN jobStatus[polls[p].job] ELSE 0,
                   !.label = IF ok THEN getTaskStatusLabel(jobStatus[polls[p].job])
                             ELSE ""]]
  /\ UNCHANGED <<siteVars, progress, convVars, remoteVars, backVars, mounted, loading, currentProject, modelUrl,
                 error, intervalOn, listed, dropPhase, drops, assigned, fetchCount,
                 firstObs>>

\* Number(status.status) === 40
CompletedSeen(st) == st = Completed

\* Number(status.status) === 20
RunningSeen(st) == st = Running

FailedSeenNever(st) == FALSE

\* Number(status.status) === 30
FailedSeen(st) == st = Failed

\* the catch block of checkProgress, in the closure of poll q
CatchCheck(p, q) ==
  /\ SetError(ErrCheck)
  /\ Render(FALSE, NoJob, currentProject # NoJob, [polls EXCEPT ![p] = IdlePoll],
            ClearedBy(q))

\* checkProgress resumes after await getTaskStatus
DeliverStatus(p) ==
  LET q == polls[p] IN
  /\ q.pc = "served"
  /\ firstObs' = IF q.ok /\ firstObs[q.job] = 0
                 THEN [firstObs EXCEPT ![q.job] = q.status] ELSE firstObs
  /\ progress' = IF q.ok THEN q.progress ELSE progress
  /\ IF ~q.ok
     THEN /\ CatchCheck(p, q)
          /\ UNCHANGED <<modelUrl, fetchCount>>
     ELSE IF CompletedSeen(q.status)
     THEN /\ intervalOn' = ClearedBy(q)
          /\ polls' = [polls EXCEPT ![p] = [q EXCEPT !.pc = "model"]]
          /\ fetchCount' = [fetchCount EXCEPT ![q.job] = @ + 1]
          /\ UNCHANGED <<loading, currentProject, modelUrl, error>>
     ELSE IF RunningSeen(q.status)
     THEN /\ Render(TRUE, currentProject, FALSE, [polls EXCEPT ![p] = IdlePoll],
                    intervalOn)
          /\ UNCHANGED <<modelUrl, error, fetchCount>>
     ELSE IF FailedSeen(q.status)
     THEN /\ SetError(ErrFailed)
          /\ Render(FALSE, NoJob, currentProject # NoJob,
                    [polls EXCEPT ![p] = IdlePoll], ClearedBy(q))
          /\ UNCHANGED <<modelUrl, fetchCount>>
     ELSE /\ polls' = [polls EXCEPT ![p] = IdlePoll]
          /\ UNCHANGED <<loading, currentProject, modelUrl, error, intervalOn,
                         fetchCount>>
  /\ UNCHANGED <<siteVars, convVars, remoteVars, backVars, mounted, listed, dropPhase, drops,
                 assigned>>

\* checkProgress resumes after await webodmApi.getModel
ModelResponse(p, ok) ==
  LET q == polls[p] IN
  /\ q.pc = "model"
  /\ IF ok
     THEN /\ modelUrl' = IF mounted THEN q.job ELSE modelUrl
          /\ Render(FALSE, NoJob, currentProject # NoJob,
                    [polls EXCEPT ![p] = [q EXCEPT !.pc = "refresh"]], intervalOn)
          /\ UNCHANGED error
     ELSE /\ CatchCheck(p, q)
          /\ UNCHANGED modelUrl
  /\ UNCHANGED <<siteVars, progress, convVars, remoteVars, backVars, mounted, listed, dropPhase, drops, assigned,
                 fetchCount, firstObs>>

\* checkProgress resumes after the awaited refresh of the project list
RefreshResponse(p, ok) ==
  LET q == polls[p] IN
  /\ q.pc = "refresh"
  /\ IF ok
     THEN /\ polls' = [polls EXCEPT ![p] = IdlePoll]
          /\ UNCHANGED <<loading, currentProject, error, intervalOn>>
     ELSE CatchCheck(p, q)
  /\ UNCHANGED <<siteVars, progress, convVars, remoteVars, backVars, mounted, modelUrl, listed, dropPhase, drops,
                 assigned, fetchCount, firstObs>>

\* a job the remote service reports no progress for
QuietReports == {Reported(0)}

\* the progress values a poll may be answered with: absent, below the range,
\* fractions, values of the range and above it
ProgressReports ==
  {NoProgress} \cup {Reported(t) : t \in {0 - 10, 0, 4, 5, 10, 500, 1000, 1500}}

ViewNext ==
  \/ \E j \in Jobs : FetchProjectsFound(j)
  \/ \E ok \in BOOLEAN : FetchProjectsNone(ok)
  \/ OnDropStart
  \/ \E j \in Jobs : OnDropCreated(j)
  \/ OnDropFail
  \/ OnDropDone
  \/ Unmount
  \/ Tick
  \/ \E p \in PollIds, ok \in BOOLEAN, rp \in QuietReports : ServePoll(p, ok, rp)
  \/ \E p \in PollIds : DeliverStatus(p)
  \/ \E p \in PollIds, ok \in BOOLEAN : ModelResponse(p, ok)
  \/ \E p \in PollIds, ok \in BOOLEAN : RefreshResponse(p, ok)

(***************************************************************************)
(* The backend: the two endpoints that convert a job's archive, and the    *)
(* cache file uploads/users/projects/model/glb/<taskId>.glb.               *)
(***************************************************************************)
IdleReq == [pc |-> "idle", ep |-> "none", job |-> NoJob, size |-> 0,
            body |-> <<>>, trace |-> {}]

\* the bytes obj2gltf produces from job j's archive, as chunks
Glb(j) == [k \in 1..GlbChunks |-> 10 * j + k]

\* convertZipToGlb finds an entry ending in .obj, else it throws
HasMesh(kind) == kind # "nomesh"

\* obj2gltf converts the mesh, else it throws
Converts(kind) == kind = "good"

\* path.join(..., 'glb', `${taskId}.glb`): the file a task's model is cached in
GlbFile(j) == taskId[j]

\* task.status !== 40 throws
StatusOk(st) == st = Completed

CacheNeverHit(j) == FALSE

\* fs.existsSync(glbFilePath)
CacheHit(j) == fileExists[GlbFile(j)]

Active(r) == reqs[r].pc \notin {"idle", "done", "error"}

\* a request slot is taken in order
NextSlot(r) == reqs[r].pc = "idle" /\ (IF r = 1 THEN TRUE ELSE reqs[r - 1].pc # "idle")

Fail(r) == [reqs EXCEPT ![r] = [@ EXCEPT !.pc = "error"]]

To(r, pc, stage) == [reqs EXCEPT ![r] = [@ EXCEPT !.pc = pc, !.trace = @ \cup stage]]

\* GET api/projects/:projectId/tasks/:taskId/model, up to await getTask
ModelRequest(r, j, token) ==
  /\ NextSlot(r) /\ jsBusy = 0
  /\ reqs' = [reqs EXCEPT ![r] = [IdleReq EXCEPT
                !.pc = IF token THEN "getTask" ELSE "error",
                !.ep = "model", !.job = j]]
  /\ UNCHANGED <<siteVars, convVars, remoteVars, viewVars, fileExists, fileData, jsBusy, firstWrite>>

\* getModel resumes after await getTask: the status check and the cache lookup
ModelTaskAnswered(r, ok) ==
  LET j == reqs[r].job IN
  /\ reqs[r].pc = "getTask" /\ jsBusy = 0
  /\ reqs' = IF ~ok \/ ~StatusOk(jobStatus[j]) THEN Fail(r)
             ELSE IF CacheHit(j) THEN To(r, "stat", {"lookup", "hit"})
             ELSE To(r, "download", {"lookup", "download"})
  /\ UNCHANGED <<siteVars, convVars, remoteVars, viewVars, fileExists, fileData, jsBusy, firstWrite>>

\* res.sendFile: the stat of the file, run by the thread pool
SendFileStat(r) ==
  LET f == GlbFile(reqs[r].job)
      n == Len(fileData[f]) IN
  /\ reqs[r].pc = "stat"
  /\ reqs' = [reqs EXCEPT ![r] = [@ EXCEPT !.size = n,
                                    !.pc = IF n = 0 THEN "done" ELSE "read"]]
  /\ UNCHANGED <<siteVars, convVars, remoteVars, viewVars, fileExists, fileData, jsBusy, firstWrite>>

\* res.sendFile: one read of the stream, run by the thread pool; the stream
\* ends at the declared size or at the end of the file
SendFileRead(r) ==
  LET f == GlbFile(reqs[r].job)
      off == Len(reqs[r].body) IN
  /\ reqs[r].pc = "read"
  /\ reqs' = IF off < Len(fileData[f])
             THEN [reqs EXCEPT ![r] = [@ EXCEPT
                     !.body = Append(@, fileData[f][off + 1]),
                     !.pc = IF off + 1 = reqs[r].size THEN "done" ELSE "read"]]
             ELSE [reqs EXCEPT ![r] = [@ EXCEPT !.pc = "done"]]
  /\ UNCHANGED <<siteVars, convVars, remoteVars, viewVars, fileExists, fileData, jsBusy, firstWrite>>

\* after await downloadFile: convertZipToGlb runs up to its first await
Downloaded(r, ok) ==
  IF ~ok \/ ~HasMesh(archive[reqs[r].job]) THEN Fail(r)
  ELSE To(r, "convert", {"convert"})

\* getModel resumes after await downloadFile
ModelDownloaded(r, ok) ==
  /\ reqs[r].pc = "download" /\ reqs[r].ep = "model" /\ jsBusy = 0
  /\ reqs' = Downloaded(r, ok)
  /\ UNCHANGED <<siteVars, convVars, remoteVars, viewVars, fileExists, fileData, jsBusy, firstWrite>>

\* ModelConverted with the cache file opened before the conversion's result is known
ModelConvertedOpensFirst(r) ==
  LET j == reqs[r].job IN
  /\ reqs[r].pc = "convert" /\ reqs[r].ep = "model" /\ jsBusy = 0
  /\ fileExists' = [fileExists EXCEPT ![GlbFile(j)] = TRUE]
  /\ fileData' = [fileData EXCEPT ![GlbFile(j)] = <<>>]
  /\ IF Converts(archive[j])
     THEN reqs' = To(r, "writing", {"write"}) /\ jsBusy' = r
     ELSE reqs' = Fail(r) /\ UNCHANGED jsBusy
  /\ UNCHANGED <<siteVars, convVars, remoteVars, viewVars, firstWrite>>

\* getModel resumes after await convertZipToGlb: on success writeFileSync opens
\* the cache file (truncating it) and the JS thread stays in the write
ModelConverted(r) ==
  LET j == reqs[r].job IN
  /\ reqs[r].pc = "convert" /\ reqs[r].ep = "model" /\ jsBusy = 0
  /\ IF Converts(archive[j])
     THEN /\ reqs' = To(r, "writing", {"write"})
          /\ fileExists' = [fileExists EXCEPT ![GlbFile(j)] = TRUE]
          /\ fileData' = [fileData EXCEPT ![GlbFile(j)] = <<>>]
          /\ jsBusy' = r
     ELSE /\ reqs' = Fail(r)
          /\ UNCHANGED <<fileExists, fileData, jsBusy>>
  /\ UNCHANGED <<siteVars, convVars, remoteVars, viewVars, firstWrite>>

\* writeFileSync writes on; after the last chunk getModel sends the buffer
ModelWrite(r) ==
  LET j == reqs[r].job
      f == GlbFile(j)
      n == Len(fileData[f]) IN
  /\ reqs[r].pc = "writing" /\ jsBusy = r
  /\ fileData' = [fileData EXCEPT ![f] = Append(@, Glb(j)[n + 1])]
  /\ IF n + 1 = GlbChunks
     THEN /\ reqs' = [reqs EXCEPT ![r] = [@ EXCEPT !.pc = "done", !.body = Glb(j),
                                            !.size = GlbChunks]]
          /\ jsBusy' = 0
          /\ firstWrite' = IF firstWrite[f] = <<>>
                           THEN [firstWrite EXCEPT ![f] = Glb(j)] ELSE firstWrite
     ELSE UNCHANGED <<reqs, jsBusy, firstWrite>>
  /\ UNCHANGED <<siteVars, convVars, remoteVars, viewVars, fileExists>>

\* GET convert-zip/:projectId/:taskId, up to await downloadFile
ConvertZipRequest(r, j, auth) ==
  /\ NextSlot(r) /\ jsBusy = 0
  /\ reqs' = [reqs EXCEPT ![r] = [IdleReq EXCEPT
                !.pc = IF auth THEN "download" ELSE "error",
                !.ep = "convertzip", !.job = j,
                !.trace = IF auth THEN {"download"} ELSE {}]]
  /\ UNCHANGED <<siteVars, convVars, remoteVars, viewVars, fileExists, fileData, jsBusy, firstWrite>>

ConvertZipDownloaded(r, ok) ==
  /\ reqs[r].pc = "download" /\ reqs[r].ep = "convertzip" /\ jsBusy = 0
  /\ reqs' = Downloaded(r, ok)
  /\ UNCHANGED <<siteVars, convVars, remoteVars, viewVars, fileExists, fileData, jsBusy, firstWrite>>

\* convertZipToGlbFromWebodm resumes after await convertZipToGlb
ConvertZipConverted(r) ==
  LET j == reqs[r].job IN
  /\ reqs[r].pc = "convert" /\ reqs[r].ep = "convertzip" /\ jsBusy = 0
  /\ reqs' = IF Converts(archive[j])
             THEN [reqs EXCEPT ![r] = [@ EXCEPT !.pc = "done", !.body = Glb(j),
                                         !.size = GlbChunks]]
             ELSE Fail(r)
  /\ UNCHANGED <<siteVars, convVars, remoteVars, viewVars, fileExists, fileData, jsBusy, firstWrite>>

\* what a request to the model endpoint does once it was received
ModelSteps(r) ==
  \/ \E ok \in BOOLEAN : ModelTaskAnswered(r, ok)
  \/ SendFileStat(r)
  \/ SendFileRead(r)
  \/ \E ok \in BOOLEAN : ModelDownloaded(r, ok)
  \/ ModelConverted(r)
  \/ ModelWrite(r)

\* what a request to the convert-zip endpoint does once it was received
ConvertZipSteps(r) ==
  \/ \E ok \in BOOLEAN : ConvertZipDownloaded(r, ok)
  \/ ConvertZipConverted(r)

(***************************************************************************)
(* convertZipToGlb.  File names and the mesh text are sequences of tokens: *)
(* "/" separates directories, an extension is one token (".obj"), and in   *)
(* the mesh " " is a blank, "\n" ends a line and "mtllib" is the directive.*)
(***************************************************************************)
MaxConvs == 2
MaxNow == 2
MaxMesh == 5

ConvIds == 1..MaxConvs

\* compressionOptions of convertZipToGlb
maxWidth == 1024
maxHeight == 1024

\* String.prototype.endsWith
EndsWith(name, suffix) ==
  /\ Len(suffix) <= Len(name)
  /\ SubSeq(name, Len(name) - Len(suffix) + 1, Len(name)) = suffix

\* String.prototype.toLowerCase, token by token
LowerToken(t) ==
  CASE t = ".PNG" -> ".png"
    [] t = ".JPG" -> ".jpg"
    [] t = ".OBJ" -> ".obj"
    [] OTHER -> t

toLowerCase(name) == [i \in 1..Len(name) |-> LowerToken(name[i])]

\* path.basename with every directory kept
basenameKeepsDirs(name) == name

\* path.basename: what follows the last separator
basename(name) ==
  LET seps == {i \in 1..Len(name) : name[i] = "/"}
      last == IF seps = {} THEN 0 ELSE CHOOSE i \in seps : \A k \in seps : k <= i
  IN SubSeq(name, last + 1, Len(name))

\* the regular expression /^mtllib\s+.*$/gm: \s is a blank or a line end,
\* . is anything but a line end, ^ and $ are the bounds of a line
IsSpace(ch) == ch \in {" ", "\n"}

LineStart(s, i) == IF i = 1 THEN TRUE ELSE s[i - 1] = "\n"

MatchAt(s, i) ==
  /\ LineStart(s, i)
  /\ s[i] = "mtllib"
  /\ IF i < Len(s) THEN IsSpace(s[i + 1]) ELSE FALSE

\* last position of the greedy \s+ that starts after position i
SpaceEnd(s, i) ==
  CHOOSE j \in (i + 1)..Len(s) :
    /\ \A k \in (i + 1)..j : IsSpace(s[k])
    /\ IF j < Len(s) THEN ~IsSpace(s[j + 1]) ELSE TRUE

\* last position of the greedy .* that starts after position j
DotEnd(s, j) ==
  CHOOSE k \in j..Len(s) :
    /\ \A m \in (j + 1)..k : s[m] # "\n"
    /\ IF k < Len(s) THEN s[k + 1] = "\n" ELSE TRUE

MatchEnd(s, i) == DotEnd(s, SpaceEnd(s, i))

\* String.prototype.replace with a global pattern, from position i on
RECURSIVE ReplaceFrom(_, _, _)
ReplaceFrom(s, i, repl) ==
  IF i > Len(s) THEN <<>>
  ELSE IF MatchAt(s, i) THEN repl \o ReplaceFrom(s, MatchEnd(s, i) + 1, repl)
  ELSE <<s[i]>> \o ReplaceFrom(s, i + 1, repl)

\* objContent.replace(/^mtllib\s+.*$/gm, `mtllib ${mtlFileName}`)
RelinkMtllib(objContent, mtlFileName) ==
  ReplaceFrom(objContent, 1, <<"mtllib", " ">> \o mtlFileName)

\* sharp's resize(maxWidth, maxHeight, {fit: 'inside', withoutEnlargement: true})
RoundDiv(a, b) == (2 * a + b) \div (2 * b)

AtLeastOne(n) == IF n < 1 THEN 1 ELSE n

Resize(w, h) ==
  IF w <= maxWidth /\ h <= maxHeight THEN <<w, h>>
  ELSE IF w * maxHeight >= h * maxWidth
  THEN <<maxWidth, AtLeastOne(RoundDiv(h * maxWidth, w))>>
  ELSE <<AtLeastOne(RoundDiv(w * maxHeight, h)), maxHeight>>

\* the entries an archive may hold
ObjEntry == <<"model", ".obj">>
PlainMtlEntry == <<"model", ".mtl">>
GeoMtlEntry == <<"odm_texturing", "/", "odm_textured_model_geo", ".mtl">>
PngEntry == <<"tex1", ".png">>
JpgEntry == <<"odm_texturing", "/", "tex2", ".jpg">>

EntryNames == {ObjEntry, PlainMtlEntry, GeoMtlEntry, PngEntry, JpgEntry}
ImageNames == {PngEntry, JpgEntry}

\* the texture a material file names (map_Kd)
MtlRefs == {<<"tex1", ".PNG">>}

\* widths and heights of the textures
Dims == {512, 1500, 2048}

NoImage == [w |-> 0, h |-> 0, corrupt |-> FALSE]

Images ==
  {NoImage} \cup [w : Dims, h : Dims, corrupt : BOOLEAN]

\* what a file of a tmp directory holds
FileOf(kind, c) ==
  [kind |-> kind, owner |-> c, w |-> 0, h |-> 0, orig |-> TRUE, corrupt |-> FALSE,
   text |-> <<>>, geomOk |-> TRUE]

ImgFile(c, img) == [FileOf("img", c) EXCEPT !.w = img.w, !.h = img.h, !.corrupt = img.corrupt]

\* fs.writeFileSync(path.join(tmpDir, name), data)
Write(files, name, data) ==
  [n \in DOMAIN files \cup {name} |-> IF n = name THEN data ELSE files[n]]

\* fs.unlinkSync(path.join(tmpDir, name))
Remove(files, name) == [n \in DOMAIN files \ {name} |-> files[n]]

\* fs.readdirSync: the names of a directory, in a fixed order
RECURSIVE Listing(_)
Listing(names) ==
  IF names = {} THEN <<>>
  ELSE LET n == CHOOSE x \in names : TRUE IN <<n>> \o Listing(names \ {n})

\* the lines of a text
RECURSIVE Lines(_)
Lines(s) ==
  IF \A i \in 1..Len(s) : s[i] # "\n" THEN <<s>>
  ELSE LET i == CHOOSE k \in 1..Len(s) : s[k] = "\n" /\ \A m \in 1..(k - 1) : s[m] # "\n"
       IN <<SubSeq(s, 1, i - 1)>> \o Lines(SubSeq(s, i + 1, Len(s)))

\* a line that names a material library
IsMtllib(line) ==
  IF Len(line) >= 2 THEN line[1] = "mtllib" /\ line[2] = " " ELSE FALSE

\* the material files a mesh text names
MtllibArgs(text) ==
  {SubSeq(Lines(text)[i], 3, Len(Lines(text)[i])) :
     i \in {k \in 1..Len(Lines(text)) : IsMtllib(Lines(text)[k])}}

\* obj2gltf(objPath, options): the material of the asset comes from the
\* material file the mesh names, its texture from the file that material names
Obj2gltf(text, files, caseFold) ==
  LET mats == {m \in MtllibArgs(text) :
                 IF m \in DOMAIN files THEN files[m].kind = "mtl" ELSE FALSE}
      texs == {n \in DOMAIN files :
                 /\ files[n].kind = "img"
                 /\ \E ref \in MtlRefs :
                      \/ n = ref
                      \/ caseFold /\ toLowerCase(n) = toLowerCase(ref)}
  IN [materials |-> IF mats = {} THEN 0 ELSE 1,
      textures |-> IF mats = {} THEN 0 ELSE Cardinality(texs)]

NoResult == [materials |-> 0, textures |-> 0]

IdleConv ==
  [pc |-> "idle", dir |-> 0, obj |-> <<>>, queue |-> <<>>, err |-> "none",
   result |-> NoResult]

\* objEntries of an archive that must hold a material file too
objEntriesWithMtl(a) ==
  {e \in a.entries : EndsWith(e, <<".obj">>) /\ \E m \in a.entries : EndsWith(m, <<".mtl">>)}

\* entries.find / entries.filter of convertZipToGlb
objEntries(a) == {e \in a.entries : EndsWith(e, <<".obj">>)}
mtlEntries(a) == {e \in a.entries : EndsWith(e, <<"odm_textured_model_geo", ".mtl">>)}
textureEntries(a) ==
  {e \in a.entries : \/ EndsWith(e, <<".png">>)
                     \/ EndsWith(e, <<".jpg">>)
                     \/ EndsWith(e, <<".jpeg">>)}

\* the files of the tmp directory after convertZipToGlb saved the material
\* file, the relinked mesh and the textures
Saved(c, a, files) ==
  LET objEntry == CHOOSE e \in objEntries(a) : TRUE
      mtlEntry == CHOOSE e \in mtlEntries(a) : TRUE
      hasMtl == mtlEntries(a) # {}
      f1 == IF hasMtl THEN Write(files, basename(mtlEntry), FileOf("mtl", c)) ELSE files
      objContent == IF hasMtl THEN RelinkMtllib(a.mesh, basename(mtlEntry)) ELSE a.mesh
      f2 == Write(f1, basename(objEntry),
                  [FileOf("obj", c) EXCEPT !.text = objContent, !.geomOk = a.geomOk])
      texNames == {basename(t) : t \in textureEntries(a)}
  IN [n \in DOMAIN f2 \cup texNames |->
        IF n \in texNames
        THEN ImgFile(c, a.img[CHOOSE t \in textureEntries(a) : basename(t) = n])
        ELSE f2[n]]

\* compressAllPngsInDirectory: the files it will compress
pngFiles(files) == {n \in DOMAIN files : EndsWith(toLowerCase(n), <<".png">>)}

\* convertZipToGlb from its call to its first await
ConvertStart(c) ==
  LET a == zips[c]
      files == Saved(c, a, tmp[now])
      pngs == IF textureEntries(a) = {} THEN {} ELSE pngFiles(files)
  IN
  /\ conv[c].pc = "idle"
  /\ IF objEntries(a) = {}
     THEN /\ conv' = [conv EXCEPT ![c] = [@ EXCEPT !.pc = "failed", !.err = "nomesh"]]
          /\ UNCHANGED tmp
     ELSE /\ tmp' = [tmp EXCEPT ![now] = files]
          /\ conv' = [conv EXCEPT ![c] = [@ EXCEPT
                        !.pc = IF pngs = {} THEN "obj2gltf" ELSE "sharp",
                        !.dir = now,
                        !.obj = basename(CHOOSE e \in objEntries(a) : TRUE),
                        !.queue = Listing(pngs)]]
  /\ UNCHANGED <<remoteVars, viewVars, backVars, siteVars, now, zips>>

\* compressPng resumes after await sharp(...).toFile(tempOutputPath) of the
\* first file of the queue; then the loop of compressAllPngsInDirectory goes
\* on to the next file, or convertZipToGlb goes on to obj2gltf
SharpDone(c, ok, unlinkOk, renameOk) ==
  LET d == conv[c].dir
      cur == Head(conv[c].queue)
      rest == Tail(conv[c].queue)
      temp == cur \o <<".temp">>
      files == tmp[d]
      sharpOk == IF cur \in DOMAIN files THEN ok /\ ~files[cur].corrupt ELSE FALSE
      small == Resize(files[cur].w, files[cur].h)
      f1 == IF sharpOk
            THEN Write(files, temp, [files[cur] EXCEPT !.owner = c, !.orig = FALSE,
                                       !.w = small[1], !.h = small[2]])
            ELSE files
      f2 == IF sharpOk /\ unlinkOk THEN Remove(f1, cur) ELSE f1
      f3 == IF sharpOk /\ unlinkOk /\ renameOk
            THEN Write(Remove(f2, temp), cur, f2[temp]) ELSE f2
      thrown == cur \notin DOMAIN f3 \/ (rest # <<>> /\ Head(rest) \notin DOMAIN f3)
  IN
  /\ conv[c].pc = "sharp"
  /\ tmp' = [tmp EXCEPT ![d] = f3]
  /\ conv' = [conv EXCEPT ![c] = [@ EXCEPT
                !.pc = IF thrown THEN "failed"
                       ELSE IF rest = <<>> THEN "obj2gltf" ELSE "sharp",
                !.err = IF thrown THEN "texture" ELSE "none",
                !.queue = IF thrown THEN <<>> ELSE rest]]
  /\ UNCHANGED <<remoteVars, viewVars, backVars, siteVars, now, zips>>

\* convertZipToGlb resumes after await obj2gltf(objPath, options)
Obj2gltfDone(c, caseFold) ==
  LET d == conv[c].dir
      files == tmp[d]
      o == files[conv[c].obj]
  IN
  /\ conv[c].pc = "obj2gltf"
  /\ IF o.geomOk
     THEN /\ tmp' = [tmp EXCEPT ![d] = Write(files, <<"debug_result", ".glb">>,
                                               FileOf("glb", c))]
          /\ conv' = [conv EXCEPT ![c] = [@ EXCEPT
                        !.pc = "done", !.result = Obj2gltf(o.text, files, caseFold)]]
     ELSE /\ conv' = [conv EXCEPT ![c] = [@ EXCEPT !.pc = "failed", !.err = "geometry"]]
          /\ UNCHANGED tmp
  /\ UNCHANGED <<remoteVars, viewVars, backVars, siteVars, now, zips>>

\* a millisecond passes
ClockTick ==
  /\ now < MaxNow
  /\ now' = now + 1
  /\ UNCHANGED <<remoteVars, viewVars, backVars, siteVars, zips, conv, tmp>>

\* the mesh of an archive whose material file is model.mtl
ScenarioMesh == <<"mtllib", " ", "model", ".mtl", "\n", "v">>

EmptyArchive ==
  [entries |-> {}, mesh |-> <<>>, geomOk |-> TRUE, img |-> [n \in ImageNames |-> NoImage]]

\* archives of any entries, textures of any size, sound or corrupt
ConvertArchives ==
  {a \in [entries : SUBSET EntryNames, mesh : {ScenarioMesh}, geomOk : BOOLEAN,
          img : [ImageNames -> Images]] :
     \A n \in ImageNames : (n \in a.entries) <=> (a.img[n] # NoImage)}

\* meshes of any text
MeshTokens == {"mtllib", " ", "\n", "/", "v"}

Meshes == UNION {[1..n -> MeshTokens] : n \in 0..MaxMesh}

RelinkArchives ==
  {[EmptyArchive EXCEPT !.entries = es, !.mesh = m] :
     es \in {{ObjEntry}, {ObjEntry, PlainMtlEntry}, {ObjEntry, GeoMtlEntry}},
     m \in Meshes}

\* archives of jobs that convert without a fault
ShareArchives ==
  {a \in ConvertArchives :
     /\ a.geomOk
     /\ a.entries \subseteq {ObjEntry, GeoMtlEntry, PngEntry}
     /\ ~a.img[PngEntry].corrupt
     /\ a.img[PngEntry].w = a.img[PngEntry].h}

FirstConv == {c \in ConvIds : \A k \in ConvIds : c <= k}

InitConvWith(given) ==
  /\ now = 1
  /\ zips \in given
  /\ conv = [c \in ConvIds |-> IdleConv]
  /\ tmp = [d \in 1..MaxNow |-> <<>>]

\* no conversion is called
InitConvNone == InitConvWith({[c \in ConvIds |-> EmptyArchive]})

\* one conversion is called
InitConvOne(archives) ==
  InitConvWith({[c \in ConvIds |-> IF c \in FirstConv THEN a ELSE EmptyArchive] :
                  a \in archives})

(***************************************************************************)
(* The backend's handlers that keep no state between requests: the         *)
(* admin-only endpoints, createTask, the upload conversion and signup.     *)
(***************************************************************************)
MaxCalls == 2
MaxFiles == 3
MaxOptions == 2
MaxUsers == 3

CallIds == 1..MaxCalls

AdminUserEndpoints ==
  {"getAdminUsers", "createAdminUser", "getAdminUser", "updateAdminUser", "deleteAdminUser"}
AdminEndpoints == AdminUserEndpoints \cup {"deleteTask"}

\* a string is the sequence of its tokens; the processing options a client names
OptionNames == {<<"dtm">>, <<"fast-orthophoto">>}
OptionLists == UNION {[1..n -> OptionNames] : n \in 0..MaxOptions}
Shapes == {"absent", "json", "csv", "csvSpaced", "fields"}
SuppliedOptions ==
  {o \in [shape : Shapes, names : OptionLists] : o.shape = "absent" => o.names = <<>>}

IdleCall ==
  [pc |-> "idle", ep |-> "none", token |-> FALSE, admin |-> FALSE,
   files |-> 0, supplied |-> [shape |-> "absent", names |-> <<>>],
   images |-> 0, options |-> <<>>, size |-> 0, name |-> 0, email |-> 0,
   status |-> 0, remote |-> FALSE, pipeline |-> FALSE]

\* the handler of call c has answered with this status
Answer(c, status) == [calls[c] EXCEPT !.pc = "done", !.status = status]

\* ---- the admin-only endpoints ----

\* the status a handler's catch block answers a ForbiddenException with
CatchStatus(ep) == IF ep \in AdminUserEndpoints THEN 500 ELSE 403

\* the status a handler's catch block answers a failed remote request with
RemoteErrorStatus(ep, code) == IF ep \in AdminUserEndpoints THEN 500 ELSE code

\* the handler throws before it calls the remote service
Forbidden(ep, token, admin) ==
  IF ep \in AdminUserEndpoints THEN ~token \/ ~admin ELSE ~admin

\* an admin-only handler up to its await of the remote service, or its catch
AdminRequest(c, ep, token, admin) ==
  /\ calls[c].pc = "idle"
  /\ calls' = [calls EXCEPT ![c] =
       IF Forbidden(ep, token, admin)
       THEN [calls[c] EXCEPT !.pc = "done", !.ep = ep, !.token = token,
                             !.admin = admin, !.status = CatchStatus(ep)]
       ELSE [calls[c] EXCEPT !.pc = "remote", !.ep = ep, !.token = token,
                             !.admin = admin, !.remote = TRUE]]
  /\ UNCHANGED <<remoteVars, viewVars, backVars, convVars, authVars, remoteUsers,
                 localUsers>>

\* the remote service answers an admin-only handler
AdminAnswered(c, code) ==
  /\ calls[c].pc = "remote" /\ calls[c].ep \in AdminEndpoints
  /\ calls' = [calls EXCEPT ![c] =
       Answer(c, IF code = 200 THEN 200 ELSE RemoteErrorStatus(calls[c].ep, code))]
  /\ UNCHANGED <<remoteVars, viewVars, backVars, convVars, authVars, remoteUsers,
                 localUsers>>

\* ---- createTask ----

RECURSIVE JoinWith(_, _)
\* Array.prototype.join
JoinWith(parts, sep) ==
  IF parts = <<>> THEN <<>>
  ELSE IF Len(parts) = 1 THEN parts[1]
  ELSE parts[1] \o sep \o JoinWith(Tail(parts), sep)

Quoted(text) == <<"\"">> \o text \o <<"\"">>

\* JSON.stringify of an array of strings
JsonStringify(names) ==
  <<"[">> \o JoinWith([i \in 1..Len(names) |-> Quoted(names[i])], <<",">>) \o <<"]">>

Punctuation == {"[", "]", ",", "\"", " "}

\* JSON.parse of a text: an array of strings, or a SyntaxError
JsonParse(text) ==
  LET n == Len(text)
      inner == SubSeq(text, 2, n - 1)
      m == Len(inner)
      wellFormed ==
        /\ n >= 2 /\ text[1] = "[" /\ text[n] = "]"
        /\ m = 0 \/ m % 4 = 3
        /\ \A i \in 1..m :
             CASE i % 4 = 1 -> inner[i] = "\""
               [] i % 4 = 2 -> inner[i] \notin Punctuation
               [] i % 4 = 3 -> inner[i] = "\""
               [] OTHER -> inner[i] = ","
  IN IF wellFormed
     THEN [ok |-> TRUE, items |-> [k \in 1..((m + 1) \div 4) |-> <<inner[4 * (k - 1) + 2]>>]]
     ELSE [ok |-> FALSE, items |-> <<>>]

RECURSIVE Split(_)
\* String.prototype.split(',')
Split(text) ==
  IF \A i \in 1..Len(text) : text[i] # "," THEN <<text>>
  ELSE LET k == CHOOSE i \in 1..Len(text) :
                  text[i] = "," /\ \A h \in 1..(i - 1) : text[h] # ","
       IN <<SubSeq(text, 1, k - 1)>> \o Split(SubSeq(text, k + 1, Len(text)))

RECURSIVE Trim(_)
\* String.prototype.trim
Trim(text) ==
  IF text = <<>> THEN text
  ELSE IF text[1] = " " THEN Trim(Tail(text))
  ELSE IF text[Len(text)] = " " THEN Trim(SubSeq(text, 1, Len(text) - 1))
  ELSE text

\* the values of a form field of the body
Undefined == [type |-> "undefined", text |-> <<>>, items |-> <<>>]
StringValue(text) == [type |-> "string", text |-> text, items |-> <<>>]
ArrayValue(items) == [type |-> "array", text |-> <<>>, items |-> items]

\* multer's body parser: a field sent once is a string, a field sent
\* several times is the array of its values
FormFields(values) ==
  IF values = <<>> THEN Undefined
  ELSE IF Len(values) = 1 THEN StringValue(values[1])
  ELSE ArrayValue(values)

\* body.options of the request a client builds for the options it supplies
BodyOptions(o) ==
  CASE o.shape = "absent" -> Undefined
    [] o.shape = "json" -> FormFields(<<JsonStringify(o.names)>>)
    [] o.shape = "csv" -> FormFields(<<JoinWith(o.names, <<",">>)>>)
    [] o.shape = "csvSpaced" -> FormFields(<<JoinWith(o.names, <<",", " ">>)>>)
    [] OTHER -> FormFields(o.names)

Truthy(v) == v.type = "array" \/ (v.type = "string" /\ v.text # <<>>)

\* String(v), the argument JSON.parse works on
StringOf(v) == IF v.type = "array" THEN JoinWith(v.items, <<",">>) ELSE v.text

NonEmpty(text) == Len(text) > 0

\* createTask's options: JSON first, then the comma-separated fallback
ParseOptions(v) ==
  IF ~Truthy(v) THEN <<>>
  ELSE LET parsed == JsonParse(StringOf(v))
           parts == Split(v.text)
       IN IF parsed.ok THEN parsed.items
          ELSE IF v.type = "string"
          THEN SelectSeq([i \in 1..Len(parts) |-> Trim(parts[i])], NonEmpty)
          ELSE <<>>

\* createTask up to the await of the remote service's answer
CreateTaskRequest(c, files, o) ==
  /\ calls[c].pc = "idle"
  /\ calls' = [calls EXCEPT ![c] =
       [calls[c] EXCEPT !.pc = "remote", !.ep = "createTask", !.files = files,
                        !.supplied = o, !.remote = TRUE, !.images = files,
                        !.options = ParseOptions(BodyOptions(o))]]
  /\ UNCHANGED <<remoteVars, viewVars, backVars, convVars, authVars, remoteUsers,
                 localUsers>>

\* the remote service answers createTask
CreateTaskAnswered(c, code) ==
  /\ calls[c].pc = "remote" /\ calls[c].ep = "createTask"
  /\ calls' = [calls EXCEPT ![c] = Answer(c, code)]
  /\ UNCHANGED <<remoteVars, viewVars, backVars, convVars, authVars, remoteUsers,
                 localUsers>>

\* ---- the upload conversion ----

maxSize == 500 * 1024 * 1024

\* the sizes of the archives uploaded: around the limit and far from it
UploadSizes == {1, maxSize - 1, maxSize, maxSize + 1, 2 * maxSize, 3 * maxSize}

\* the size check that accepts every upload
TooLargeNever(size) == FALSE

\* the size check of convertZipToGltfApi
TooLarge(size) == size > maxSize

\* convertZipToGltfApi up to await convertZipToGlb, or its early return
ConvertUpload(c, size) ==
  /\ calls[c].pc = "idle"
  /\ calls' = [calls EXCEPT ![c] =
       IF TooLarge(size)
       THEN [calls[c] EXCEPT !.pc = "done", !.ep = "convert", !.size = size,
                             !.status = 400]
       ELSE [calls[c] EXCEPT !.pc = "convert", !.ep = "convert", !.size = size,
                             !.pipeline = TRUE]]
  /\ UNCHANGED <<remoteVars, viewVars, backVars, convVars, authVars, remoteUsers,
                 localUsers>>

\* convertZipToGltfApi resumes after await convertZipToGlb
ConvertUploadDone(c, ok) ==
  /\ calls[c].pc = "convert"
  /\ calls' = [calls EXCEPT ![c] = Answer(c, IF ok THEN 200 ELSE 400)]
  /\ UNCHANGED <<remoteVars, viewVars, backVars, convVars, authVars, remoteUsers,
                 localUsers>>

\* ---- signup ----

UserNames == 1..MaxUsers
Emails == 0..MaxUsers
Account(name, email) == [username |-> name, email |-> email]

\* signup up to await signupUser, or its catch when no admin token is configured
SignupRequest(c, name, email, adminToken) ==
  /\ calls[c].pc = "idle"
  /\ calls' = [calls EXCEPT ![c] =
       IF adminToken
       THEN [calls[c] EXCEPT !.pc = "remote", !.ep = "signup", !.name = name,
                             !.email = email, !.remote = TRUE]
       ELSE [calls[c] EXCEPT !.pc = "done", !.ep = "signup", !.name = name,
                             !.email = email, !.status = 400]]
  /\ UNCHANGED <<remoteVars, viewVars, backVars, convVars, authVars, remoteUsers,
                 localUsers>>

\* the remote service answers signupUser: it creates the user unless it
\* fails or holds the username already; signup goes on to userService.create
SignupRemoteAnswered(c, ok) ==
  LET q == calls[c]
      created == ok /\ \A u \in remoteUsers : u.username # q.name
  IN /\ q.pc = "remote" /\ q.ep = "signup"
     /\ remoteUsers' = IF created THEN remoteUsers \cup {Account(q.name, q.email)}
                       ELSE remoteUsers
     /\ calls' = [calls EXCEPT ![c] =
          IF created THEN [q EXCEPT !.pc = "local"] ELSE Answer(c, 400)]
     /\ UNCHANGED <<remoteVars, viewVars, backVars, convVars, authVars, localUsers>>

\* userService.create: the insert fails on a username or an email the
\* table holds already, or with the database
SignupLocalDone(c, ok) ==
  LET q == calls[c]
      created == /\ ok
                 /\ \A u \in localUsers :
                      u.username # q.name /\ (q.email = 0 \/ u.email # q.email)
  IN /\ q.pc = "local"
     /\ localUsers' = IF created THEN localUsers \cup {Account(q.name, q.email)}
                      ELSE localUsers
     /\ calls' = [calls EXCEPT ![c] = Answer(c, IF created THEN 200 ELSE 400)]
     /\ UNCHANGED <<remoteVars, viewVars, backVars, convVars, authVars, remoteUsers>>

(***************************************************************************)
(* The frontend's session: AuthProvider's state, localStorage, and the     *)
(* handlers that sign the user in and out.                                 *)
(***************************************************************************)
MaxTokens == 3

NoToken == 0
NoUser == 0
Tokens == 1..MaxTokens
Users == 1..MaxUsers
Paths == {"/", "/login"}

EmptyStorage == [token |-> NoToken, user |-> NoUser]

\* useState's initializer: the state AuthProvider mounts with
LoadAuthState(st) ==
  [token |-> st.token, isAuthenticated |-> st.token # NoToken, user |-> st.user]

\* the page is loaded: AuthProvider mounts, the requests of the page before are gone
PageLoad(st, path) ==
  /\ authState' = LoadAuthState(st)
  /\ pathname' = path
  /\ inFlight' = {}

\* the user opens or reloads the application
Open(path) ==
  /\ PageLoad(storage, path)
  /\ UNCHANGED <<remoteVars, viewVars, backVars, convVars, apiVars, storage>>

\* the response interceptor's rejection handler, for a response to request kind
Intercept(kind, code) ==
  IF code \in {401, 403}
  THEN /\ storage' = EmptyStorage
       /\ IF pathname # "/login"
          THEN PageLoad(EmptyStorage, "/")
          ELSE /\ inFlight' = inFlight \ {kind}
               /\ UNCHANGED <<authState, pathname>>
  ELSE /\ inFlight' = inFlight \ {kind}
       /\ UNCHANGED <<authState, storage, pathname>>

\* Login's handleSubmit up to await webodmApi.login
LoginSubmit ==
  /\ ~authState.isAuthenticated
  /\ inFlight' = inFlight \cup {"login"}
  /\ UNCHANGED <<remoteVars, viewVars, backVars, convVars, apiVars, authState, storage,
                 pathname>>

\* login resumes with the response: a token, and a user or none
LoginResolved(t, u) ==
  /\ "login" \in inFlight
  /\ storage' = [token |-> t, user |-> IF u # NoUser THEN u ELSE storage.user]
  /\ authState' = [token |-> t, isAuthenticated |-> TRUE, user |-> u]
  /\ inFlight' = inFlight \ {"login"}
  /\ UNCHANGED <<remoteVars, viewVars, backVars, convVars, apiVars, pathname>>

\* the login request fails
LoginRejected(code) ==
  /\ "login" \in inFlight
  /\ Intercept("login", code)
  /\ UNCHANGED <<remoteVars, viewVars, backVars, convVars, apiVars>>

\* a signed-in page sends a request through the axios instance
ApiRequest ==
  /\ authState.isAuthenticated
  /\ inFlight' = inFlight \cup {"api"}
  /\ UNCHANGED <<remoteVars, viewVars, backVars, convVars, apiVars, authState, storage,
                 pathname>>

\* the request is answered
ApiResolved(code) ==
  /\ "api" \in inFlight
  /\ IF code = 200
     THEN /\ inFlight' = inFlight \ {"api"}
          /\ UNCHANGED <<authState, storage, pathname>>
     ELSE Intercept("api", code)
  /\ UNCHANGED <<remoteVars, viewVars, backVars, convVars, apiVars>>

\* AuthProvider's logout, called by the viewer's handleLogout (which reloads
\* the page) and by the token validity check (which does not)
Logout(reload) ==
  /\ authState.isAuthenticated
  /\ storage' = EmptyStorage
  /\ IF reload
     THEN PageLoad(EmptyStorage, pathname)
     ELSE /\ authState' = [token |-> NoToken, isAuthenticated |-> FALSE, user |-> NoUser]
          /\ UNCHANGED <<pathname, inFlight>>
  /\ UNCHANGED <<remoteVars, viewVars, backVars, convVars, apiVars>>

\* the logout button of ProjectTablePage's header
LogoutButton ==
  /\ authState.isAuthenticated
  /\ storage' = [storage EXCEPT !.token = NoToken]
  /\ PageLoad([storage EXCEPT !.token = NoToken], pathname)
  /\ UNCHANGED <<remoteVars, viewVars, backVars, convVars, apiVars>>

ArchiveKinds == {"good", "nomesh", "badgeom"}

InitRemote ==
  /\ jobStatus = [j \in Jobs |-> Queued]
  /\ archive = [j \in Jobs |-> "good"]
  /\ taskId = [j \in Jobs |-> j]

\* the remote jobs with any kind of result archive
InitRemoteAny ==
  /\ jobStatus = [j \in Jobs |-> Queued]
  /\ archive \in [Jobs -> ArchiveKinds]
  /\ taskId = [j \in Jobs |-> j]

\* the remote jobs, tasks of different projects, with any task ids
InitRemoteKeys ==
  /\ jobStatus = [j \in Jobs |-> Queued]
  /\ archive = [j \in Jobs |-> "good"]
  /\ taskId \in [Jobs -> Jobs]

InitView ==
  /\ mounted = TRUE
  /\ loading = FALSE
  /\ currentProject = NoJob
  /\ modelUrl = NoJob
  /\ error = Null
  /\ intervalOn = FALSE
  /\ polls = [p \in PollIds |-> IdlePoll]
  /\ listed = FALSE
  /\ dropPhase = "none"
  /\ drops = 0
  /\ assigned = {}
  /\ fetchCount = [j \in Jobs |-> 0]
  /\ firstObs = [j \in Jobs |-> 0]
  /\ progress = 0

InitBack ==
  /\ reqs = [r \in ReqIds |-> IdleReq]
  /\ fileExists = [j \in Jobs |-> FALSE]
  /\ fileData = [j \in Jobs |-> <<>>]
  /\ jsBusy = 0
  /\ firstWrite = [j \in Jobs |-> <<>>]

InitSite ==
  /\ calls = [c \in CallIds |-> IdleCall]
  /\ remoteUsers = {}
  /\ localUsers = {}
  /\ authState = LoadAuthState(EmptyStorage)
  /\ storage = EmptyStorage
  /\ pathname = "/"
  /\ inFlight = {}

Init == InitRemote /\ InitView /\ InitBack /\ InitConvNone /\ InitSite

\* the viewer watching remote jobs
NextWatch ==
  \/ \E j \in Jobs, s \in Codes : RemoteAdvance(j, s)
  \/ ViewNext

SpecWatch == Init /\ [][NextWatch]_vars

InitAny == InitRemoteAny /\ InitView /\ InitBack /\ InitConvNone /\ InitSite

\* concurrent requests to the two model endpoints
NextCache ==
  \/ \E j \in Jobs, s \in Codes : RemoteAdvance(j, s)
  \/ \E r \in ReqIds, j \in Jobs, token \in BOOLEAN : ModelRequest(r, j, token)
  \/ \E r \in ReqIds, j \in Jobs, auth \in BOOLEAN : ConvertZipRequest(r, j, auth)
  \/ \E r \in ReqIds : ModelSteps(r)
  \/ \E r \in ReqIds : ConvertZipSteps(r)

SpecCache == InitAny /\ [][NextCache]_vars

\* requests to the model endpoint one after the other: a request is sent
\* when every earlier one was answered
NextSeq ==
  \/ \E j \in Jobs, s \in Codes : RemoteAdvance(j, s)
  \/ \E r \in ReqIds, j \in Jobs, token \in BOOLEAN :
       (\A o \in ReqIds : ~Active(o)) /\ ModelRequest(r, j, token)
  \/ \E r \in ReqIds : ModelSteps(r)

SpecSeq == InitAny /\ [][NextSeq]_vars

\* requests one after the other, for tasks of different projects
InitKeys == InitRemoteKeys /\ InitView /\ InitBack /\ InitConvNone /\ InitSite

SpecKeys == InitKeys /\ [][NextSeq]_vars

\* one job end to end: the viewer finds it running and watches it, while
\* clients call the model endpoint for it
WatchedJob == {j \in Jobs : \A k \in Jobs : j <= k}
ClientReqs == {r \in ReqIds : r < MaxReqs}

NextE2E ==
  \/ \E j \in WatchedJob, s \in Codes : RemoteAdvance(j, s)
  \/ \E j \in WatchedJob : FetchProjectsFound(j)
  \/ \E ok \in BOOLEAN : FetchProjectsNone(ok)
  \/ Unmount
  \/ Tick
  \/ \E p \in PollIds, ok \in BOOLEAN, rp \in QuietReports : ServePoll(p, ok, rp)
  \/ \E p \in PollIds : DeliverStatus(p)
  \/ \E p \in PollIds, ok \in BOOLEAN : ModelResponse(p, ok)
  \/ \E p \in PollIds, ok \in BOOLEAN : RefreshResponse(p, ok)
  \/ \E r \in ClientReqs, j \in WatchedJob, token \in BOOLEAN : ModelRequest(r, j, token)
  \/ \E r \in ClientReqs : ModelSteps(r)

SpecE2E == Init /\ [][NextE2E]_vars

InitOther == InitRemote /\ InitView /\ InitBack /\ InitSite

\* one call of convertZipToGlb, on any archive
NextConvert ==
  \/ \E c \in FirstConv : ConvertStart(c)
  \/ \E c \in FirstConv, ok \in BOOLEAN, unlinkOk \in BOOLEAN, renameOk \in BOOLEAN :
       SharpDone(c, ok, unlinkOk, renameOk)
  \/ \E c \in FirstConv, caseFold \in BOOLEAN : Obj2gltfDone(c, caseFold)

InitConvert == InitOther /\ InitConvOne(ConvertArchives)

SpecConvert == InitConvert /\ [][NextConvert]_vars

\* one call of convertZipToGlb, on a mesh of any text
NextRelink ==
  \/ \E c \in FirstConv : ConvertStart(c)
  \/ \E c \in FirstConv, caseFold \in BOOLEAN : Obj2gltfDone(c, caseFold)

InitRelink == InitOther /\ InitConvOne(RelinkArchives)

SpecRelink == InitRelink /\ [][NextRelink]_vars

\* concurrent calls of convertZipToGlb for different jobs
NextShare ==
  \/ ClockTick
  \/ \E c \in ConvIds : ConvertStart(c)
  \/ \E c \in ConvIds, ok \in BOOLEAN, unlinkOk \in BOOLEAN, renameOk \in BOOLEAN :
       SharpDone(c, ok, unlinkOk, renameOk)
  \/ \E c \in ConvIds, caseFold \in BOOLEAN : Obj2gltfDone(c, caseFold)

InitShare == InitOther /\ InitConvWith([ConvIds -> ShareArchives])

SpecShare == InitShare /\ [][NextShare]_vars

\* the viewer watching one job that reports its progress, and the user's drops
NextProgress ==
  \/ \E j \in WatchedJob, s \in Codes : RemoteAdvance(j, s)
  \/ \E j \in WatchedJob : FetchProjectsFound(j)
  \/ \E ok \in BOOLEAN : FetchProjectsNone(ok)
  \/ OnDropStart
  \/ \E j \in WatchedJob : OnDropCreated(j)
  \/ OnDropFail
  \/ OnDropDone
  \/ Unmount
  \/ Tick
  \/ \E p \in PollIds, ok \in BOOLEAN, rp \in ProgressReports : ServePoll(p, ok, rp)
  \/ \E p \in PollIds : DeliverStatus(p)
  \/ \E p \in PollIds, ok \in BOOLEAN : ModelResponse(p, ok)
  \/ \E p \in PollIds, ok \in BOOLEAN : RefreshResponse(p, ok)

SpecProgress == Init /\ [][NextProgress]_vars

\* the status codes the remote service answers with
RemoteCodes == {200, 400, 404}

\* requests to the admin-only endpoints
NextAdmin ==
  \/ \E c \in CallIds, ep \in AdminEndpoints, token \in BOOLEAN, admin \in BOOLEAN :
       AdminRequest(c, ep, token, admin)
  \/ \E c \in CallIds, code \in RemoteCodes : AdminAnswered(c, code)

SpecAdmin == Init /\ [][NextAdmin]_vars

\* requests to create a task
NextTask ==
  \/ \E c \in CallIds, files \in 0..MaxFiles, o \in SuppliedOptions :
       CreateTaskRequest(c, files, o)
  \/ \E c \in CallIds, code \in RemoteCodes : CreateTaskAnswered(c, code)

SpecTask == Init /\ [][NextTask]_vars

\* uploads to the conversion endpoint
NextUpload ==
  \/ \E c \in CallIds, size \in UploadSizes : ConvertUpload(c, size)
  \/ \E c \in CallIds, ok \in BOOLEAN : ConvertUploadDone(c, ok)

SpecUpload == Init /\ [][NextUpload]_vars

\* signups
NextSignup ==
  \/ \E c \in CallIds, name \in UserNames, email \in Emails, adminToken \in BOOLEAN :
       SignupRequest(c, name, email, adminToken)
  \/ \E c \in CallIds, ok \in BOOLEAN : SignupRemoteAnswered(c, ok)
  \/ \E c \in CallIds, ok \in BOOLEAN : SignupLocalDone(c, ok)

SpecSignup == Init /\ [][NextSignup]_vars

\* the session of one browser tab
NextSession ==
  \/ \E path \in Paths : Open(path)
  \/ LoginSubmit
  \/ \E t \in Tokens, u \in Users \cup {NoUser} : LoginResolved(t, u)
  \/ \E code \in {401, 500} : LoginRejected(code)
  \/ ApiRequest
  \/ \E code \in {200, 401, 403, 500} : ApiResolved(code)
  \/ \E reload \in BOOLEAN : Logout(reload)
  \/ LogoutButton

SpecSession == Init /\ [][NextSession]_vars

\* the watcher and the model endpoint with the steps of the program itself
\* taken whenever they can be: a callback whose answer has arrived runs, a
\* file operation and a conversion end.  Nothing makes the remote answer.
SpecWait ==
  /\ Init
  /\ [][NextE2E]_vars
  /\ WF_vars(\E p \in PollIds : DeliverStatus(p))
  /\ WF_vars(\E r \in ClientReqs : SendFileStat(r) \/ SendFileRead(r))
  /\ WF_vars(\E r \in ClientReqs : ModelConverted(r) \/ ModelWrite(r))

(***************************************************************************)
(* The claims.                                                             *)
(***************************************************************************)
\* checkProgress of poll p resumes with the answer of its status call
Delivered(p) == polls[p].pc = "served" /\ polls'[p].pc # "served"

Pipeline == {"download", "convert", "write"}

\* C1: for a watched job the model fetch fires exactly once, at the first poll
\* that observes status 40, and on no other poll: a poll's answer fires the
\* fetch if and only if it observes 40 and no fetch was fired for the job yet.
C1_FetchExactlyOnceAtFirst40 ==
  [][\A p \in PollIds : Delivered(p) =>
       ((fetchCount'[polls[p].job] # fetchCount[polls[p].job])
          <=> (polls[p].ok /\ polls[p].status = Completed
                 /\ fetchCount[polls[p].job] = 0))]_vars

\* C2: after the poll effect's cleanup (unmount, or another job became the
\* watched one) no poll is issued for the cancelled watch, and the answer of a
\* poll that was in flight neither fetches the model nor changes modelUrl,
\* loading, currentProject or error.
C2_CancelSuppressesLateAnswer ==
  [][\A p \in PollIds :
       /\ (polls[p].pc = "idle" /\ polls'[p].pc = "sent") => (mounted /\ polls'[p].live)
       /\ (/\ Delivered(p)
           /\ ~polls[p].live
           /\ (~mounted \/ currentProject \notin {NoJob, polls[p].job}))
          => (/\ UNCHANGED <<modelUrl, loading, currentProject, error>>
              /\ fetchCount' = fetchCount)]_vars

\* C3: once a poll of the current watch observes a terminal status (30, 40 or
\* 50), polling stops: the interval timer is no longer armed.
C3_TerminalStopsPolling ==
  [][\A p \in PollIds :
       (Delivered(p) /\ polls[p].live /\ polls[p].ok /\ polls[p].status \in Terminal)
         => ~intervalOn']_vars

\* C4: a request served from the cache receives the complete asset, never a
\* part of the file.
C4_NoPartialRead ==
  \A r \in ReqIds :
    (reqs[r].pc = "done" /\ "hit" \in reqs[r].trace) => reqs[r].body = Glb(reqs[r].job)

\* C5: for one job at most one request to the model endpoint downloads and
\* converts the archive.
C5_ConvertsAtMostOnce ==
  \A j \in Jobs :
    Cardinality({r \in ReqIds : /\ reqs[r].ep = "model" /\ reqs[r].job = j
                                /\ "download" \in reqs[r].trace}) <= 1

\* C6: on both endpoints a request downloads and converts only after it looked
\* the job up in the cache and missed.
C6_LookupBeforePipeline ==
  \A r \in ReqIds :
    (reqs[r].trace \cap Pipeline # {})
      => ("lookup" \in reqs[r].trace /\ "hit" \notin reqs[r].trace)

\* C7: the cache is written only on full pipeline success: a request that ends
\* in an error returns no bytes and did not touch the cache file, a request
\* writes only after download and conversion, and a cache file exists only for
\* a job whose archive converts.
C7_CacheOnlyOnSuccess ==
  /\ \A r \in ReqIds :
       /\ reqs[r].pc = "error" => (reqs[r].body = <<>> /\ "write" \notin reqs[r].trace)
       /\ "write" \in reqs[r].trace =>
            ({"lookup", "download", "convert"} \subseteq reqs[r].trace
               /\ archive[reqs[r].job] = "good")
  /\ \A j \in Jobs :
       fileExists[GlbFile(j)] => archive[j] = "good"

\* a conversion failed, the request ended in an error and nothing is cached
C7_Witness ==
  \E r \in ReqIds :
    /\ reqs[r].pc = "error" /\ "convert" \in reqs[r].trace
    /\ archive[reqs[r].job] = "badgeom"
    /\ ~fileExists[GlbFile(reqs[r].job)]

\* C8: of two requests for the same job sent one after the other, the first
\* having written the cache, the second is a cache hit: it neither downloads
\* nor converts, and the bytes it is served are those of the first write.
C8_SecondRequestHits ==
  \A r0 \in ReqIds, r \in ReqIds :
    (/\ r0 < r
     /\ reqs[r0].job = reqs[r].job
     /\ reqs[r0].pc = "done" /\ "write" \in reqs[r0].trace
     /\ "lookup" \in reqs[r].trace)
    => (/\ "hit" \in reqs[r].trace
        /\ reqs[r].trace \cap Pipeline = {}
        /\ reqs[r].pc = "done" =>
             (/\ reqs[r].body = firstWrite[GlbFile(reqs[r].job)]
              /\ reqs[r].body = reqs[r0].body))

C8_Witness ==
  \E r0 \in ReqIds, r \in ReqIds :
    /\ r0 < r
    /\ reqs[r0].job = reqs[r].job
    /\ reqs[r0].pc = "done" /\ "write" \in reqs[r0].trace
    /\ reqs[r].pc = "done" /\ "hit" \in reqs[r].trace
    /\ reqs[r].body = Glb(reqs[r].job)

C10_PipelineOnlyForCompleted ==
  \A r \in ReqIds :
    (reqs[r].trace \cap Pipeline # {}) => jobStatus[reqs[r].job] = Completed

\* C11: a failed status call (network failure, timeout) of the current watch
\* does not end the watch: the watched job, loading and the error message are
\* as before and the timer stays armed, so that the call is tried again.
C11_PollErrorKeepsWatch ==
  [][\A p \in PollIds :
       (Delivered(p) /\ polls[p].live /\ ~polls[p].ok)
         => (/\ UNCHANGED <<currentProject, loading, error>>
             /\ intervalOn' = intervalOn)]_vars

\* C12: the status of a job follows the table 10 Queued, 20 Running, 30 Failed,
\* 40 Completed, 50 Canceled, any other code Unknown; a poll that observes an
\* Unknown code neither stops polling nor fetches the model nor changes the
\* watch.
C12_StatusTable ==
  [][\A p \in PollIds :
       (Delivered(p) /\ polls[p].ok) =>
         /\ polls[p].label =
              (CASE polls[p].status = Queued -> "QUEUED"
                 [] polls[p].status = Running -> "RUNNING"
                 [] polls[p].status = Failed -> "FAILED"
                 [] polls[p].status = Completed -> "COMPLETED"
                 [] polls[p].status = Canceled -> "CANCELED"
                 [] OTHER -> "UNKNOWN")
         /\ polls[p].label = "UNKNOWN"
              => (/\ UNCHANGED <<currentProject, loading, error, modelUrl, fetchCount>>
                  /\ intervalOn' = intervalOn
                  /\ polls'[p].pc = "idle")]_vars

\* the first code the watcher saw for the watched job is outside the table,
\* and the watch goes on
C12_Witness ==
  \E j \in Jobs :
    /\ firstObs[j] = UnknownCode
    /\ mounted /\ intervalOn /\ loading /\ currentProject = j /\ error = Null

\* the file a texture entry of the archive is saved as
TextureFile(c, t) == tmp[conv[c].dir][basename(t)]

Started(c) == conv[c].dir # 0

\* C13: a failure on one texture (decode, encode, or replacing the file by the
\* re-encoded copy) never aborts the conversion: no conversion fails in the
\* texture batch, and once the batch is over every texture of the archive has
\* its file in the directory.
C13_TextureFailureNeverAborts ==
  \A c \in ConvIds :
    /\ conv[c].err # "texture"
    /\ conv[c].pc \in {"obj2gltf", "done"}
         => \A t \in textureEntries(zips[c]) : basename(t) \in DOMAIN tmp[conv[c].dir]

\* C14: a step of one conversion neither overwrites nor deletes a file that
\* another conversion wrote, and compresses (reads) no such file.
C14_NoSharedFiles ==
  [][\A c \in ConvIds :
       (conv'[c] # conv[c]) =>
         /\ \A d \in 1..MaxNow : \A n \in DOMAIN tmp[d] :
              tmp[d][n].owner # c
                => (IF n \in DOMAIN tmp'[d] THEN tmp'[d][n] = tmp[d][n] ELSE FALSE)
         /\ \A i \in 1..Len(conv'[c].queue) :
              tmp'[conv'[c].dir][conv'[c].queue[i]].owner = c]_vars

\* C15: when a conversion has returned or thrown, none of the files it
\* created exists any more: no tmp directory holds a file of its own.
C15_NothingLeftBehind ==
  \A c \in ConvIds :
    conv[c].pc \in {"done", "failed"}
      => \A d \in 1..MaxNow : \A n \in DOMAIN tmp[d] : tmp[d][n].owner # c

\* C16: the conversion fails at ingestion if and only if the archive has no
\* entry ending in .obj, and then nothing was written; with a mesh it never
\* fails for want of a material file or of textures, and an archive of a mesh
\* alone converts to an asset without material and texture.
C16_MissingMeshOnly ==
  \A c \in ConvIds :
    LET a == zips[c]
        hasMesh == \E e \in a.entries : e[Len(e)] = ".obj"
    IN /\ conv[c].err = "nomesh"
            => (~hasMesh /\ ~Started(c) /\ \A d \in 1..MaxNow : DOMAIN tmp[d] = {})
       /\ (conv[c].pc # "idle" /\ ~hasMesh)
            => (conv[c].pc = "failed" /\ conv[c].err = "nomesh")
       /\ (conv[c].pc = "failed" /\ hasMesh) => conv[c].err \in {"texture", "geometry"}
       /\ (conv[c].pc # "idle" /\ hasMesh /\ a.geomOk
             /\ a.entries \cap ImageNames = {})
            => conv[c].pc \in {"obj2gltf", "done"}
       /\ (conv[c].pc = "done" /\ a.entries = {ObjEntry}) => conv[c].result = NoResult

\* an archive of a mesh alone was converted
C16_Witness ==
  \E c \in ConvIds :
    /\ conv[c].pc = "done" /\ zips[c].entries = {ObjEntry}
    /\ conv[c].result = NoResult
    /\ DOMAIN tmp[conv[c].dir] = {basename(ObjEntry), <<"debug_result", ".glb">>}

C18_OtherLinesUntouched ==
  \A c \in ConvIds :
    Started(c) =>
      LET in == Lines(zips[c].mesh)
          out == Lines(tmp[conv[c].dir][conv[c].obj].text)
      IN /\ Len(out) = Len(in)
         /\ \A i \in 1..Len(in) :
              (in[i] = <<>> \/ Head(in[i]) # "mtllib") => out[i] = in[i]
         /\ (\A e \in zips[c].entries : e[Len(e)] # ".mtl")
              => tmp[conv[c].dir][conv[c].obj].text = zips[c].mesh

\* C19: the archive of model.obj, model.mtl (naming tex1.PNG) and tex1.png
\* converts to an asset with one material and one embedded texture.
C19_ScenarioA ==
  \A c \in ConvIds :
    (conv[c].pc = "done" /\ zips[c].entries = {ObjEntry, PlainMtlEntry, PngEntry})
      => conv[c].result = [materials |-> 1, textures |-> 1]

\* C20: once the texture batch is over, every texture of the archive (png,
\* jpg, jpeg) is no wider and no higher than it was in the archive, and than
\* the maximum.
C20_NoTextureAboveBound ==
  \A c \in ConvIds :
    conv[c].pc \in {"obj2gltf", "done"} =>
      \A t \in zips[c].entries \cap ImageNames :
        IF basename(t) \in DOMAIN tmp[conv[c].dir]
        THEN /\ TextureFile(c, t).w <= zips[c].img[t].w
             /\ TextureFile(c, t).h <= zips[c].img[t].h
             /\ TextureFile(c, t).w <= maxWidth
             /\ TextureFile(c, t).h <= maxHeight
        ELSE FALSE

\* C21: the answer of a poll of one job changes nothing of the watch of
\* another job that is being watched: the watched job, loading, the error,
\* the shown model and the timer stay as they are, also when the other job's
\* watch began while the poll was in flight.
C21_WatchesIndependent ==
  [][\A p \in PollIds :
       (/\ Delivered(p) \/ (polls[p].pc \in {"model", "refresh"} /\ polls'[p] # polls[p])
        /\ mounted
        /\ currentProject # NoJob
        /\ currentProject # polls[p].job)
         => (/\ UNCHANGED <<currentProject, loading, error, modelUrl>>
             /\ intervalOn' = intervalOn)]_vars

\* C22: no call to the remote waits for ever: a status poll that was sent
\* ends, and a model request that waits for the task or for the archive ends,
\* answered or not.
C22_CallsEnd ==
  /\ \A p \in PollIds : (polls[p].pc = "sent") ~> (polls[p].pc # "sent")
  /\ \A r \in ReqIds :
       (reqs[r].pc \in {"getTask", "download"}) ~> (reqs[r].pc \notin {"getTask", "download"})

\* C23: a request served from the cache receives the asset that was stored
\* for its own task of its own project, never the asset of a task with the
\* same id in another project.
C23_CacheKeyedByProject ==
  \A r \in ReqIds, j \in Jobs :
    (/\ reqs[r].pc = "done" /\ "hit" \in reqs[r].trace
     /\ j # reqs[r].job /\ taskId[j] = taskId[reqs[r].job])
      => reqs[r].body # Glb(j)

\* C24: a request to an admin-only endpoint from a caller who is not an
\* administrator is answered with status 403, and the remote operation is
\* not performed.
C24_NonAdminForbidden ==
  \A c \in CallIds :
    (calls[c].ep \in AdminEndpoints /\ ~calls[c].admin)
      => (/\ ~calls[c].remote
          /\ calls[c].pc = "done"
          /\ calls[c].status = 403)

\* C25: a create-task request with fewer than 2 image files is rejected with
\* an error, and no task-creation request reaches the remote system.
C25_TaskNeedsTwoImages ==
  \A c \in CallIds :
    (calls[c].ep = "createTask" /\ calls[c].files < 2)
      => (/\ ~calls[c].remote
          /\ calls[c].pc = "done"
          /\ calls[c].status >= 400)

\* C26: the options a client supplies with a create-task request of at
\* least 2 images, as a JSON array, as a comma-separated string or as
\* repeated form fields, are forwarded to the remote job one option each,
\* none dropped, and the request does not fail before it reaches the remote.
C26_OptionsForwarded ==
  \A c \in CallIds :
    (calls[c].ep = "createTask" /\ calls[c].files >= 2)
      => (calls[c].remote /\ calls[c].options = calls[c].supplied.names)

\* C27: an upload larger than 500 MB is answered with status 400 without
\* the pipeline being invoked; the pipeline runs only for uploads of at
\* most 500 MB.
C27_UploadBounded ==
  \A c \in CallIds :
    calls[c].ep = "convert"
      => (/\ calls[c].size > maxSize
               => (calls[c].pc = "done" /\ calls[c].status = 400 /\ ~calls[c].pipeline)
          /\ calls[c].pipeline => calls[c].size <= maxSize)

\* an upload of more than 500 MB was rejected and one of exactly 500 MB is
\* being converted
C27_Witness ==
  \E c, d \in CallIds :
    /\ calls[c].ep = "convert" /\ calls[c].size > maxSize /\ calls[c].pc = "done"
    /\ calls[d].ep = "convert" /\ calls[d].size = maxSize /\ calls[d].pipeline

\* C28: the progress the status call returns is within 0..100, and the
\* percentage shown while a model is being generated never exceeds 100.
C28_ProgressInRange ==
  /\ \A p \in PollIds : polls[p].pc = "served" => polls[p].progress \in 0..100
  /\ (mounted /\ loading) => ShownPercent(progress) <= 100

\* C29: once every signup request has been answered, a user exists in the
\* remote system exactly when it exists in the local database.
C29_SignupAllOrNothing ==
  (\A c \in CallIds : calls[c].pc \in {"idle", "done"})
    => ({u.username : u \in remoteUsers} = {u.username : u \in localUsers})

\* C30: isAuthenticated is true exactly when a token is stored, and a logout
\* leaves neither the token nor the user record in storage.
C30_SessionAgrees ==
  /\ [](authState.isAuthenticated <=> storage.token # NoToken)
  /\ [][(LogoutButton \/ \E reload \in BOOLEAN : Logout(reload))
          => storage' = EmptyStorage]_vars

====
